---- MODULE Spec2Model ----
(***************************************************************************)
(* Postman -> Jira/Xray result reconciliation.                             *)
(*                                                                         *)
(* The repository holds several versions of the same sync script.  Each    *)
(* version is modelled as a "program" that runs against one shared issue   *)
(* tracker:                                                                *)
(*   "S"  src/scripts/sync_xray_jira.js, lines 1-693  (syncPostmanResults) *)
(*   "R"  src/sync_xray_jira.js                       (main)               *)
(*   "D"  src/unnamed/part_003, lines 1065-1340       (syncBugForTest)     *)
(*   "A"  src/unnamed/part_003, lines 1-314           (main)               *)
(*   "F"  src/unnamed/part_003, lines 1372-1617       (main)               *)
(*   "P"  src/unnamed/part_002                        (syncPostmanResults) *)
(*   "V"  src/unnamed/part_004                        (syncPostmanResults) *)
(* A run handles one record of its report per step; every remote call of   *)
(* the step is appended to the step's request log, and any of the calls    *)
(* may be answered with a non-2xx response.                                *)
(***************************************************************************)
EXTENDS Integers, Sequences, FiniteSets, TLC

\* ------------------------------------------------------------------ bounds
MaxIssues == 4      \* issues the tracker can hold
MaxRecs == 2        \* execution records per report
MaxAsserts == 2     \* assertions per execution record
MaxFail == 1        \* remote calls that fail while one record is handled
MaxTitle == 2       \* distinct request titles carrying the same case key
MaxKey == 1         \* distinct test keys in an import response
MaxCalls == 10      \* calls of one step that failure injection can reach

\* ------------------------------------------------------------------ strings
\* Status and transition names are character sequences, so that
\* toUpperCase / toLowerCase / includes are computed, not assumed.
Lower == <<"a","b","c","d","e","f","g","h","i","j","k","l","m",
           "n","o","p","q","r","s","t","u","v","w","x","y","z">>
Upper == <<"A","B","C","D","E","F","G","H","I","J","K","L","M",
           "N","O","P","Q","R","S","T","U","V","W","X","Y","Z">>

UpChar(c) == IF \E i \in 1..26 : Lower[i] = c
             THEN Upper[CHOOSE i \in 1..26 : Lower[i] = c] ELSE c
LowChar(c) == IF \E i \in 1..26 : Upper[i] = c
              THEN Lower[CHOOSE i \in 1..26 : Upper[i] = c] ELSE c
toUpperCase(s) == [i \in 1..Len(s) |-> UpChar(s[i])]
toLowerCase(s) == [i \in 1..Len(s) |-> LowChar(s[i])]
includes(s, t) == \E i \in 0..(Len(s) - Len(t)) : SubSeq(s, i + 1, i + Len(t)) = t

sOPEN == <<"O","P","E","N">>
sREOPEN == <<"R","E","O","P","E","N">>
sREOPENED == <<"R","E","O","P","E","N","E","D">>
sCLOSE == <<"C","L","O","S","E">>
sCLOSED == <<"C","L","O","S","E","D">>
sOpen == <<"O","p","e","n">>
sReopened == <<"R","e","o","p","e","n","e","d">>
sClosed == <<"C","l","o","s","e","d">>
sReopen == <<"R","e","o","p","e","n">>
sClose == <<"C","l","o","s","e">>
sReopenIssue == <<"R","e","o","p","e","n"," ","I","s","s","u","e">>
sCloseIssue == <<"C","l","o","s","e"," ","I","s","s","u","e">>

\* ------------------------------------------------------------------ enums
TEST_STATUS == [PASSED |-> "PASSED", FAILED |-> "FAILED", SKIPPED |-> "SKIPPED"]
BUG_LIFECYCLE == [CREATED |-> "OPEN", REOPENED |-> "REOPENED", CLOSED |-> "CLOSED"]

Programs == {"S", "R", "D", "A", "F", "P", "V"}

\* A request name: k is the case key in its bracket token (0: the name has no
\* such token), t tells apart the titles that follow the token.
Names == {[k |-> 0, t |-> 1]} \cup [k : {1}, t : 1..MaxTitle]
NoName == [k |-> 0, t |-> 0]

\* The assertion list of an execution: "absent" (no array under the field)
\* or a sequence of outcomes.  "pass": status 'passed' and no error object;
\* "fail": status 'failed' and an error object.
Outcomes == {"pass", "fail"}
AssertLists == [present : {FALSE}, list : {<<>>}] \cup
               [present : {TRUE}, list : UNION {[1..n -> Outcomes] : n \in 0..MaxAsserts}]

ExecRecords == {r \in [name : Names, tests : AssertLists] :
                  r.name.k = 0 => r.tests = [present |-> FALSE, list |-> <<>>]}

\* One entry of the tests array of the Xray import response (program R).
ImportedTests == [testKey : 0..MaxKey, status : {"PASSED", "FAILED", "TODO"}]

\* ------------------------------------------------------------------ tracker
\* Workflows of the tracker.  name[s] is the display name of status s; every
\* transition has the id and name the transitions endpoint reports.
Statuses == {"open", "reopened", "closed"}

WfUpper == [name |-> [s \in Statuses |-> CASE s = "open" -> sOPEN
                                          [] s = "reopened" -> sREOPENED
                                          [] OTHER -> sCLOSED],
            trans |-> {[id |-> 21, name |-> sReopen, from |-> {"closed"}, to |-> "reopened"],
                       [id |-> 31, name |-> sClose, from |-> {"open", "reopened"}, to |-> "closed"]}]
WfClassic == [name |-> [s \in Statuses |-> CASE s = "open" -> sOpen
                                            [] s = "reopened" -> sReopened
                                            [] OTHER -> sClosed],
              trans |-> {[id |-> 3, name |-> sReopenIssue, from |-> {"closed"}, to |-> "reopened"],
                         [id |-> 2, name |-> sCloseIssue, from |-> {"open", "reopened"}, to |-> "closed"]}]
Workflows == {WfUpper, WfClassic}

\* An issue.  kind/name/skey say what its summary holds:
\*   "plain"      summary = the request name                 (a test case)
\*   "failedTest" "Failed Test: <request name>"              (bug of S)
\*   "failedKey"  "Failed test bug for <test key>"           (bug of R)
\*   "bugKey"     "[Bug] <test key>"                         (bug of D)
\*   "bugName"    "Bug - <request name>"                     (bug of A)
\*   "auto"       "[AUTO] Bug for <test key>: <name>"        (bug of F)
\*   "exec"       "Test Execution - <collection>"            (execution of F)
\* tc is the value of the custom field "Test Case" (0: not set), dkey the
\* test key the description mentions (0: none).
Issue(type, kind, name, skey, tc, dkey, status) ==
    [type |-> type, kind |-> kind, name |-> name, skey |-> skey,
     tc |-> tc, dkey |-> dkey, status |-> status]

VARIABLES
    workflow,   \* the workflow configured in the tracker
    prog,       \* the program the pipeline runs against this tracker
    issues,     \* the tracker: issue key k is issues[k]
    pc,         \* position of the current run
    mode,       \* "free", "keep" (the report is remembered) or "replay"
    report,     \* mode "keep": the records the loop has read so far
    imported,   \* program R: keys of the PASSED entries of the import response
    rest,       \* mode "keep": names of the records left unread by the loop
    prev,       \* mode "replay": the report of the run before
    idx,        \* number of records the loop has consumed
    workflowMap,\* program S: status -> transition id (0: no entry)
    xrayToken,  \* program F: TRUE once the token is held
    stats,      \* per-run counters
    last,       \* what the latest step did (history)
    exitCode,   \* exit status of the run (-1: still running)
    file,       \* what the run found at the path of the results file
    fields      \* program S: the GET /rest/api/3/field requests of module load:
                \* "inflight" while one of them is unanswered

vars == <<workflow, prog, issues, pc, mode, report, imported, rest, prev, idx,
          workflowMap, xrayToken, stats, last, exitCode, file, fields>>

\* ------------------------------------------------------------------ remote calls
\* A step threads a record st through the calls it makes:
\*   iss     tracker after the calls so far
\*   log     the requests issued so far, in order
\*   thrown  an exception is propagating
\*   ret     value returned by the latest function
\* A request: k the issue it addresses, k2 a second issue (links), s a status
\* or issue type, ok whether the answer was 2xx, tok the value its header
\* "Authorization: Bearer ..." carries ("none": it has no such header).
Req(op, k, k2, s, ok) ==
    [op |-> op, k |-> k, k2 |-> k2, s |-> s, ok |-> ok, tok |-> "none"]
St0(iss) == [iss |-> iss, log |-> <<>>, thrown |-> FALSE, ret |-> 0]

\* The n-th call of a step gets a non-2xx answer iff n is in fail.
Answered(st, fail) == (Len(st.log) + 1) \notin fail

\* Issue a request; serverOk is what the service itself answers.
Emit(st, fail, op, k, k2, s, serverOk) ==
    [st EXCEPT !.log = Append(@, Req(op, k, k2, s, Answered(st, fail) /\ serverOk))]
LastOk(st) == st.log[Len(st.log)].ok

\* The request just issued went out with a Bearer header: tok is "token",
\* the body of a 2xx answer of the authenticate endpoint, or what else the
\* variable in the header held.
Bearer(st, tok) == [st EXCEPT !.log[Len(st.log)].tok = tok]
Throw(st) == [st EXCEPT !.thrown = TRUE]
Return(st, v) == [st EXCEPT !.ret = v]

\* A call whose failure is thrown to the caller.
Must(st, fail, op, k, k2, s) ==
    IF st.thrown THEN st
    ELSE LET e == Emit(st, fail, op, k, k2, s, TRUE)
         IN IF LastOk(e) THEN e ELSE Throw(e)

\* A call with a Bearer header whose failure is thrown to the caller.
MustBearer(st, fail, op, k, k2, s, tok) ==
    IF st.thrown THEN st
    ELSE LET e == Bearer(Emit(st, fail, op, k, k2, s, TRUE), tok)
         IN IF LastOk(e) THEN e ELSE Throw(e)

\* issues[0] of a search answer limited to one result: the tracker's default
\* order is not fixed by the request, so either end may come first.
First(keys, ord) == IF keys = {} THEN 0
                    ELSE IF ord = "asc" THEN CHOOSE k \in keys : \A j \in keys : k <= j
                    ELSE CHOOSE k \in keys : \A j \in keys : k >= j


\* POST /rest/api/3/issue
CreateIssue(st, fail, issue) ==
    LET e == Emit(st, fail, "create", Len(st.iss) + 1, 0, issue.type, TRUE)
    IN IF LastOk(e)
       THEN Return([e EXCEPT !.iss = Append(@, issue)], Len(st.iss) + 1)
       ELSE Throw(e)

\* Transitions the endpoint lists for an issue: those leaving its status.
TransitionsOf(wf, iss, k) ==
    IF k \in 1..Len(iss) THEN {t \in wf.trans : iss[k].status \in t.from} ELSE {}

\* POST /rest/api/3/issue/<k>/transitions with a transition id.
ApplyTransition(wf, st, fail, k, id, target) ==
    LET ts == {t \in TransitionsOf(wf, st.iss, k) : t.id = id}
        e == Emit(st, fail, "transition", k, 0, target, ts # {})
    IN IF LastOk(e)
       THEN [e EXCEPT !.iss[k].status = (CHOOSE t \in ts : TRUE).to]
       ELSE e


\* GET /rest/api/3/issue/<k>/transitions
GetTransitions(wf, st, fail, k) ==
    Emit(st, fail, "transitions", k, 0, "", k \in 1..Len(st.iss))

\* The transitions of a set in the order the endpoint lists them (by id).
RECURSIVE ById(_)
ById(ts) == IF ts = {} THEN <<>>
            ELSE LET t == CHOOSE x \in ts : \A y \in ts : x.id <= y.id
                 IN <<t>> \o ById(ts \ {t})

FailSets == {f \in SUBSET (1..MaxCalls) : Cardinality(f) <= MaxFail}
Orders == {"asc", "desc"}

\* ------------------------------------------------------------------ history
NoLast == [prog |-> "none", name |-> NoName, tests |-> [present |-> FALSE, list |-> <<>>],
           matched |-> FALSE, verdict |-> "", testKey |-> 0, before |-> <<>>,
           log |-> <<>>, thrown |-> FALSE]
NoStats == [attempts |-> 0, skipped |-> 0, created |-> 0, errored |-> 0]
NoMap == [OPEN |-> 0, REOPENED |-> 0, CLOSED |-> 0]

Creates(log) == Cardinality({n \in 1..Len(log) : LET r == log[n] IN r.op = "create" /\ r.ok})

\* =================================================================== program S
\* src/scripts/sync_xray_jira.js, lines 1-693

\* The verdict as "every assertion passed": an empty list then counts as
\* PASSED.
S_overallStatusEvery(tests) ==
    LET testAssertions == IF tests.present THEN tests.list ELSE <<>>
    IN IF \A i \in 1..Len(testAssertions) : testAssertions[i] = "pass"
       THEN TEST_STATUS.PASSED ELSE TEST_STATUS.FAILED

\* Verdict of an execution, lines 618-625.
S_overallStatus(tests) ==
    LET testAssertions == IF tests.present THEN tests.list ELSE <<>>
    IN IF Len(testAssertions) > 0
       THEN LET anyFailed == \E i \in 1..Len(testAssertions) : testAssertions[i] # "pass"
            IN IF anyFailed THEN TEST_STATUS.FAILED ELSE TEST_STATUS.PASSED
       ELSE TEST_STATUS.SKIPPED

\* The loop over the listed transitions, lines 390-395.
RECURSIVE S_mapTransitions(_, _)
S_mapTransitions(ts, map) ==
    IF ts = <<>> THEN map
    ELSE LET name == toUpperCase(Head(ts).name)
             m == IF includes(name, sOPEN) THEN [map EXCEPT !.OPEN = Head(ts).id]
                  ELSE IF includes(name, sREOPEN) THEN [map EXCEPT !.REOPENED = Head(ts).id]
                  ELSE IF includes(name, sCLOSE) THEN [map EXCEPT !.CLOSED = Head(ts).id]
                  ELSE map
         IN S_mapTransitions(Tail(ts), m)

\* fetchJiraWorkflowTransitions: the map it leaves for the listed transitions.
S_fetchJiraWorkflowTransitions(wf, iss, k) ==
    S_mapTransitions(ById(TransitionsOf(wf, iss, k)), NoMap)

\* getIssueId, lines 283-298.
S_getIssueId(st, fail, k, what) ==
    IF st.thrown THEN st
    ELSE LET e == Emit(st, fail, "get", k, 0, what, TRUE)
         IN IF LastOk(e) THEN e ELSE Throw(e)

\* What the two token functions hand to their caller after a 2xx answer:
\* getXrayAuthToken, lines 101-110, returns res.data; authenticateXray,
\* lines 91-98, stores res.data in XRAY_TOKEN and has no return statement.
S_getXrayAuthToken == "token"
S_authenticateXray == "undefined"

\* addTestToTestSet / addTestToTestExecution, lines 305-366: the token
\* exchange is outside the try block, the GraphQL call inside it.
S_addTest(st, fail, op, k) ==
    IF st.thrown THEN st
    ELSE LET a == Emit(st, fail, "auth", 0, 0, "", TRUE)
         IN IF ~LastOk(a) THEN Throw(a)
            ELSE Bearer(Emit(a, fail, op, k, 0, "", TRUE), S_getXrayAuthToken)

\* Line 158: the parameter list ends at testExecutionKey, so the name
\* overallStatus used at line 211 is bound nowhere in the function's scope.
S_overallStatusInScope == FALSE

\* submitTestResult, lines 119-152, called without await at line 211: the
\* header of line 145 holds the value line 120 got from authenticateXray.
S_submitTestResult(st, fail, k, status) ==
    LET a == Emit(st, fail, "auth", 0, 0, "", TRUE)
    IN IF ~LastOk(a) THEN a
       ELSE Bearer(Emit(a, fail, "submit", k, 0, status, TRUE), S_authenticateXray)

\* createOrUpdateXrayTestCase as a function that creates the test case
\* whatever the search returns.
S_createXrayTestCaseAnew(st, fail, ord, name, status) ==
    LET s1 == Emit(st, fail, "search", 0, 0, "Test", TRUE)
        s2 == IF ~LastOk(s1) THEN Throw(s1)
              ELSE CreateIssue(s1, fail, Issue("Test", "plain", name, 0, 0, 0, "open"))
        s5 == S_getIssueId(S_getIssueId(S_getIssueId(s2, fail, s2.ret, "Test"),
                                        fail, 0, "Test Set"), fail, 0, "Test Execution")
        s7 == S_addTest(S_addTest(s5, fail, "addToSet", s2.ret), fail, "addToExec", s2.ret)
    IN IF s7.thrown THEN s7 ELSE Throw(s7)

\* createOrUpdateXrayTestCase, lines 158-219.
S_createOrUpdateXrayTestCase(st, fail, ord, name, status) ==
    LET s1 == Emit(st, fail, "search", 0, 0, "Test", TRUE)
        found == {k \in 1..Len(st.iss) : LET i == st.iss[k] IN i.type = "Test" /\ i.kind = "plain" /\ i.name = name}
        s2 == IF ~LastOk(s1) THEN Throw(s1)
              ELSE IF found # {} THEN Return(s1, First(found, ord))
              ELSE CreateIssue(s1, fail, Issue("Test", "plain", name, 0, 0, 0, "open"))
        testCaseKey == s2.ret
        s3 == S_getIssueId(s2, fail, testCaseKey, "Test")
        s4 == S_getIssueId(s3, fail, 0, "Test Set")
        s5 == S_getIssueId(s4, fail, 0, "Test Execution")
        s6 == S_addTest(s5, fail, "addToSet", testCaseKey)
        s7 == S_addTest(s6, fail, "addToExec", testCaseKey)
    IN IF s7.thrown THEN s7
       ELSE IF ~S_overallStatusInScope THEN Throw(s7)
       ELSE Return(S_submitTestResult(s7, fail, testCaseKey, status), testCaseKey)

\* findExistingBugForTest, lines 545-559: the JQL asks for "Test Case" = key.
S_bugsOf(iss, testKey) ==
    {k \in 1..Len(iss) : LET i == iss[k] IN i.type = "Bug" /\ i.tc = testKey /\ testKey # 0}

S_findExistingBugForTest(st, fail, ord, testKey) ==
    IF st.thrown THEN st
    ELSE LET e == Emit(st, fail, "search", testKey, 0, "Bug", TRUE)
         IN IF LastOk(e) THEN Return(e, First(S_bugsOf(st.iss, testKey), ord)) ELSE Throw(e)

\* createOrUpdateBugForTest, lines 512-539: the created bug carries the
\* request name in its summary and no "Test Case" value.
S_createOrUpdateBugForTest(st, fail, ord, testKey, name) ==
    LET f == S_findExistingBugForTest(st, fail, ord, testKey)
    IN IF f.thrown \/ f.ret # 0 THEN f
       ELSE CreateIssue(f, fail, Issue("Bug", "failedTest", name, 0, 0, testKey, "open"))

\* linkBugToTestCase, lines 487-505: a failure is logged and swallowed.
S_linkBugToTestCase(st, fail, bugKey, testKey) ==
    IF st.thrown THEN st ELSE Emit(st, fail, "link", bugKey, testKey, "", TRUE)

\* updateJiraBugStatus, lines 442-462.
S_updateJiraBugStatus(wf, map, st, fail, issueKey, status) ==
    IF st.thrown THEN st
    ELSE IF map[status] = 0 THEN Throw(st)
    ELSE ApplyTransition(wf, st, fail, issueKey, map[status], status)

\* One iteration of the loop for a record whose name matched, lines 609-653.
S_iteration(wf, map, iss, fail, ord, rec) ==
    LET overallStatus == S_overallStatus(rec.tests)
        c == S_createOrUpdateXrayTestCase(St0(iss), fail, ord, rec.name, overallStatus)
        testKey == c.ret
    IN IF c.thrown THEN c
       ELSE IF overallStatus = TEST_STATUS.FAILED
       THEN LET f == S_findExistingBugForTest(c, fail, ord, testKey)
                b == IF f.thrown \/ f.ret # 0 THEN f
                     ELSE S_createOrUpdateBugForTest(f, fail, ord, testKey, rec.name)
                l == S_linkBugToTestCase(b, fail, b.ret, testKey)
            IN Return(S_updateJiraBugStatus(wf, map, l, fail, b.ret, BUG_LIFECYCLE.REOPENED), testKey)
       ELSE IF overallStatus = TEST_STATUS.PASSED
       THEN LET f == S_findExistingBugForTest(c, fail, ord, testKey)
            IN IF f.thrown \/ f.ret = 0 THEN Return(f, testKey)
               ELSE Return(S_updateJiraBugStatus(wf, map, f, fail, f.ret, BUG_LIFECYCLE.CLOSED), testKey)
       ELSE c


\* The loop of lines 601-654 over a list of records whose remote calls are
\* all answered, with the catch of lines 657-659: the tracker it leaves.
RECURSIVE S_run(_, _, _, _, _)
S_run(wf, map, iss, ord, recs) ==
    IF recs = <<>> THEN iss
    ELSE IF Head(recs).name.k = 0 THEN S_run(wf, map, iss, ord, Tail(recs))
    ELSE LET r == S_iteration(wf, map, iss, {}, ord, Head(recs))
         IN IF r.thrown THEN r.iss ELSE S_run(wf, map, r.iss, ord, Tail(recs))


\* =================================================================== program R
\* src/sync_xray_jira.js

sreopen == <<"r","e","o","p","e","n">>
sclose == <<"c","l","o","s","e">>
sdone == <<"d","o","n","e">>
sclosed == <<"c","l","o","s","e","d">>
sresolved == <<"r","e","s","o","l","v","e","d">>

\* The keys of a set, highest (created last) first: ORDER BY created DESC.
RECURSIVE Desc(_)
Desc(ks) == IF ks = {} THEN <<>>
            ELSE LET k == CHOOSE x \in ks : \A y \in ks : x >= y
                 IN <<k>> \o Desc(ks \ {k})

\* findBugIssue, lines 59-75: bugs whose summary holds the test key; a
\* failed search is logged and answered with the empty list.
R_bugsOf(iss, testKey) ==
    {k \in 1..Len(iss) : LET i == iss[k] IN i.type = "Bug" /\ i.skey = testKey /\ testKey # 0}

R_findBugIssue(st, fail, testKey) ==
    LET e == Emit(st, fail, "search", testKey, 0, "Bug", TRUE)
    IN [st |-> e, bugs |-> IF LastOk(e) THEN Desc(R_bugsOf(st.iss, testKey)) ELSE <<>>]

\* createBugIssue, lines 77-97: null (0) when the request fails.
R_createBugIssue(st, fail, testKey) ==
    LET c == CreateIssue(st, fail, Issue("Bug", "failedKey", NoName, testKey, 0, testKey, "open"))
    IN IF c.thrown THEN Return([c EXCEPT !.thrown = FALSE], 0) ELSE c

\* updateBugStatus, lines 99-119.
R_updateBugStatus(wf, st, fail, issueKey, transitionName, target) ==
    LET g == GetTransitions(wf, st, fail, issueKey)
        ts == {t \in TransitionsOf(wf, st.iss, issueKey) :
                 toLowerCase(t.name) = toLowerCase(transitionName)}
    IN IF ~LastOk(g) \/ ts = {} THEN g
       ELSE ApplyTransition(wf, g, fail, issueKey, ById(ts)[1].id, target)

\* The status test as "anything but open": a reopened bug then counts as
\* closed.
R_isClosedLoose(wf, status) == toLowerCase(wf.name[status]) # <<"o", "p", "e", "n">>

\* The status test of lines 164-165 and 189-190.
R_isClosed(wf, status) == toLowerCase(wf.name[status]) \in {sdone, sclosed, sresolved}

\* linkIssues, lines 121-138.
R_linkIssues(st, fail, bugKey, testKey) == Emit(st, fail, "link", bugKey, testKey, "", TRUE)

\* The body of the loop of processFailedTests without the test of line 171:
\* the link is requested whatever createBugIssue returned.
R_processFailedLinkAlways(wf, iss, fail, testKey) ==
    LET f == R_findBugIssue(St0(iss), fail, testKey)
        b == IF Len(f.bugs) = 0 THEN R_createBugIssue(f.st, fail, testKey)
             ELSE LET bugKey == f.bugs[1]
                  IN IF R_isClosed(wf, iss[bugKey].status)
                     THEN Return(R_updateBugStatus(wf, f.st, fail, bugKey, sReopen,
                                                   BUG_LIFECYCLE.REOPENED), bugKey)
                     ELSE Return(f.st, bugKey)
    IN R_linkIssues(b, fail, b.ret, testKey)

\* Body of the loop of processFailedTests, lines 142-174.
R_processFailed(wf, iss, fail, testKey) ==
    LET f == R_findBugIssue(St0(iss), fail, testKey)
        b == IF Len(f.bugs) = 0 THEN R_createBugIssue(f.st, fail, testKey)
             ELSE LET bugKey == f.bugs[1]
                  IN IF R_isClosed(wf, iss[bugKey].status)
                     THEN Return(R_updateBugStatus(wf, f.st, fail, bugKey, sReopen,
                                                   BUG_LIFECYCLE.REOPENED), bugKey)
                     ELSE Return(f.st, bugKey)
    IN IF b.ret # 0 THEN R_linkIssues(b, fail, b.ret, testKey) ELSE b

\* Body of the loop of processPassedTests, lines 180-194.
RECURSIVE R_closeAll(_, _, _, _, _)
R_closeAll(wf, before, st, fail, bugs) ==
    IF bugs = <<>> THEN st
    ELSE LET s1 == IF ~R_isClosed(wf, before[Head(bugs)].status)
                   THEN R_updateBugStatus(wf, st, fail, Head(bugs), sClose, BUG_LIFECYCLE.CLOSED)
                   ELSE st
         IN R_closeAll(wf, before, s1, fail, Tail(bugs))

R_processPassed(wf, iss, fail, testKey) ==
    LET f == R_findBugIssue(St0(iss), fail, testKey)
    IN R_closeAll(wf, iss, f.st, fail, f.bugs)

\* =================================================================== program D
\* src/unnamed/part_003, lines 1065-1340

\* The summary a test case gets: the text of the first assertion when the
\* execution has one, else the request name (line 1298).
AssertionText == [k |-> 0, t |-> 0]
D_testName(rec) ==
    IF rec.tests.present /\ Len(rec.tests.list) > 0 THEN AssertionText ELSE rec.name

\* Verdict, line 1308.
D_testStatus(tests) ==
    IF tests.present /\ (\E i \in 1..Len(tests.list) : tests.list[i] # "fail")
    THEN TEST_STATUS.PASSED ELSE TEST_STATUS.FAILED

\* createOrUpdateXrayTestCase, lines 1148-1195 (and lines 53-107 of program A).
\* Its Bearer headers hold XRAY_TOKEN, set by the authenticateXray that
\* syncPostmanResults awaits before the loop (line 1284; line 249 in A).
D_createOrUpdateXrayTestCase(st, fail, ord, name) ==
    LET s1 == Must(st, fail, "search", 0, 0, "Test")
        found == {k \in 1..Len(st.iss) : LET i == st.iss[k] IN i.type = "Test" /\ i.kind = "plain" /\ i.name = name}
        s2 == IF s1.thrown THEN s1
              ELSE IF found # {} THEN Return(s1, First(found, ord))
              ELSE CreateIssue(s1, fail, Issue("Test", "plain", name, 0, 0, 0, "open"))
        s3 == MustBearer(s2, fail, "addToSet", s2.ret, 0, "", "token")
    IN Return(MustBearer(s3, fail, "addToExec", s2.ret, 0, "", "token"), s2.ret)

\* transitionJiraIssue, lines 1252-1259.
D_transitionJiraIssue(wf, st, fail, issueKey, targetStatus, target) ==
    LET g == GetTransitions(wf, st, fail, issueKey)
        ts == {t \in TransitionsOf(wf, st.iss, issueKey) :
                 toUpperCase(wf.name[t.to]) = targetStatus}
    IN IF ~LastOk(g) THEN Throw(g)
       ELSE IF ts = {} THEN g
       ELSE LET a == ApplyTransition(wf, g, fail, issueKey, ById(ts)[1].id, target)
            IN IF LastOk(a) THEN a ELSE Throw(a)

D_bugsOf(iss, testKey) ==
    {k \in 1..Len(iss) : LET i == iss[k] IN i.type = "Bug" /\ i.kind = "bugKey" /\ i.skey = testKey}

\* syncBugForTest, lines 1200-1249; its catch swallows every exception.
D_syncBugForTest(wf, st, fail, ord, testKey, status) ==
    LET s1 == Must(st, fail, "search", testKey, 0, "Bug")
        existing == First(D_bugsOf(st.iss, testKey), ord)
        closed == existing # 0 /\ wf.name[st.iss[existing].status] = sCLOSED
        s2 == IF s1.thrown THEN s1
              ELSE IF status = TEST_STATUS.FAILED
              THEN LET b == IF existing # 0
                            THEN IF closed
                                 THEN Return(D_transitionJiraIssue(wf, s1, fail, existing, sREOPENED,
                                                                   BUG_LIFECYCLE.REOPENED), existing)
                                 ELSE Return(s1, existing)
                            ELSE CreateIssue(s1, fail,
                                     Issue("Bug", "bugKey", NoName, testKey, 0, testKey, "open"))
                   IN Must(b, fail, "link", testKey, b.ret, "")
              ELSE s1
        s3 == IF ~s2.thrown /\ status = TEST_STATUS.PASSED /\ existing # 0 /\ ~closed
              THEN D_transitionJiraIssue(wf, s2, fail, existing, sCLOSED, BUG_LIFECYCLE.CLOSED)
              ELSE s2
    IN [s3 EXCEPT !.thrown = FALSE]

\* One iteration of the loop for a record whose name matched, lines 1297-1325.
D_iteration(wf, iss, fail, ord, rec) ==
    LET testStatus == D_testStatus(rec.tests)
        c == D_createOrUpdateXrayTestCase(St0(iss), fail, ord, D_testName(rec))
        u == MustBearer(c, fail, "submit", c.ret, 0, testStatus, "token")
    IN IF u.thrown THEN u
       ELSE Return(D_syncBugForTest(wf, u, fail, ord, c.ret, testStatus), c.ret)

\* =================================================================== program A
\* src/unnamed/part_003, lines 1-314

\* Verdict, lines 288-289.
A_status(tests) ==
    LET failedAssertions == IF tests.present
                            THEN SelectSeq(tests.list, LAMBDA a : a = "fail") ELSE <<>>
    IN IF Len(failedAssertions) > 0 THEN TEST_STATUS.FAILED ELSE TEST_STATUS.PASSED

\* createOrUpdateJiraBug, lines 113-140: the search has no issue type.
A_bugsOf(iss, name) == {k \in 1..Len(iss) : LET i == iss[k] IN i.kind = "bugName" /\ i.name = name}

A_createOrUpdateJiraBug(st, fail, ord, name) ==
    LET s1 == Must(st, fail, "search", 0, 0, "Bug")
        found == A_bugsOf(st.iss, name)
    IN IF s1.thrown THEN s1
       ELSE IF found # {} THEN Return(s1, First(found, ord))
       ELSE CreateIssue(s1, fail, Issue("Bug", "bugName", name, 0, 0, 0, "open"))

\* The table of line 164.
A_transitions == [OPEN |-> 11, REOPENED |-> 21, CLOSED |-> 31]
A_desired(status) == IF status = "OPEN" THEN sOPEN
                     ELSE IF status = "REOPENED" THEN sREOPENED ELSE sCLOSED

\* updateJiraBugStatus, lines 163-186.
A_updateJiraBugStatus(wf, st, fail, bugKey, desiredStatus) ==
    LET g == Must(st, fail, "get", bugKey, 0, "Bug")
        currentStatus == toUpperCase(wf.name[st.iss[bugKey].status])
    IN IF g.thrown THEN g
       ELSE IF currentStatus = A_desired(desiredStatus) THEN g
       ELSE LET a == ApplyTransition(wf, g, fail, bugKey, A_transitions[desiredStatus],
                                     desiredStatus)
            IN IF LastOk(a) THEN a ELSE Throw(a)

\* One iteration of the loop for a record whose name matched, lines 259-301.
A_iteration(wf, iss, fail, ord, rec) ==
    LET status == A_status(rec.tests)
        c == D_createOrUpdateXrayTestCase(St0(iss), fail, ord, rec.name)
        b == IF c.thrown THEN c ELSE A_createOrUpdateJiraBug(c, fail, ord, rec.name)
        bugKey == b.ret
    IN IF b.thrown THEN Return(b, c.ret)
       ELSE IF status = TEST_STATUS.FAILED
       THEN LET f == Must(b, fail, "attach", bugKey, 0, "")
            IN IF f.thrown THEN Return(f, c.ret)
               ELSE Return(A_updateJiraBugStatus(wf, f, fail, bugKey, BUG_LIFECYCLE.CREATED), c.ret)
       ELSE Return(A_updateJiraBugStatus(wf, b, fail, bugKey, BUG_LIFECYCLE.CLOSED), c.ret)

\* =================================================================== program F
\* src/unnamed/part_003, lines 1372-1617

\* extractTestKey, lines 1416-1419: the key a title embeds names a test case
\* kept outside the issues this model holds.
F_extractTestKey(name) == IF name.k = 0 THEN 0 ELSE MaxIssues + name.k

\* Line 1589.
F_failed(tests) == tests.present /\ (\E i \in 1..Len(tests.list) : tests.list[i] = "fail")

\* createXrayTest, lines 1514-1526.
F_createXrayTest(st, fail, name) ==
    CreateIssue(st, fail, Issue("Test", "plain", name, 0, 0, 0, "open"))

\* createTestExecution, lines 1531-1542.
F_createTestExecution(st, fail) ==
    CreateIssue(st, fail, Issue("Test Execution", "exec", NoName, 0, 0, 0, "open"))

\* getXrayToken and submitResultToXray, lines 1401-1411 and 1547-1569.
F_submitResultToXray(st, fail, token, testKey, status) ==
    LET t == IF token THEN st ELSE Must(st, fail, "auth", 0, 0, "")
    IN MustBearer(t, fail, "submit", testKey, 0, status, "token")

F_bugsOf(iss, testKey) == {k \in 1..Len(iss) : LET i == iss[k] IN i.type = "Bug" /\ i.dkey = testKey}

\* createBug, lines 1440-1454; linkIssues swallows its failure.
F_createBug(st, fail, testKey, name) ==
    LET c == CreateIssue(st, fail, Issue("Bug", "auto", name, testKey, 0, testKey, "open"))
        a == Must(c, fail, "attach", c.ret, 0, "")
    IN IF a.thrown THEN a ELSE Emit(a, fail, "link", testKey, c.ret, "", TRUE)

\* reopenIssue and closeIssue, lines 1459-1480: the first listed transition
\* whose lower-cased name contains one of the words.
F_transition(wf, st, fail, issueKey, words, target) ==
    LET g == GetTransitions(wf, st, fail, issueKey)
        ts == {t \in TransitionsOf(wf, st.iss, issueKey) :
                 \E w \in words : includes(toLowerCase(t.name), w)}
    IN IF ~LastOk(g) THEN Throw(g)
       ELSE IF ts = {} THEN g
       ELSE LET a == ApplyTransition(wf, g, fail, issueKey, ById(ts)[1].id, target)
            IN IF LastOk(a) THEN a ELSE Throw(a)

\* One iteration of the loop of main, lines 1579-1607.
F_iteration(wf, iss, fail, ord, token, rec) ==
    LET embedded == F_extractTestKey(rec.name)
        c == IF embedded = 0 THEN F_createXrayTest(St0(iss), fail, rec.name)
             ELSE Return(St0(iss), embedded)
        testKey == c.ret
        failed == F_failed(rec.tests)
        u == IF c.thrown THEN c
             ELSE F_submitResultToXray(c, fail, token, testKey, IF failed THEN "FAIL" ELSE "PASS")
        s1 == Must(u, fail, "search", testKey, 0, "Bug")
        bug == First(F_bugsOf(u.iss, testKey), ord)
        b == IF s1.thrown THEN s1
             ELSE IF failed
             THEN IF bug = 0 THEN F_createBug(s1, fail, testKey, rec.name)
                  ELSE IF toLowerCase(wf.name[s1.iss[bug].status]) \in {sdone, sclose}
                  THEN Must(F_transition(wf, s1, fail, bug, {sreopen}, BUG_LIFECYCLE.REOPENED),
                            fail, "attach", bug, 0, "")
                  ELSE Must(s1, fail, "attach", bug, 0, "")
             ELSE IF bug # 0
             THEN F_transition(wf, s1, fail, bug, {sdone, sclose}, BUG_LIFECYCLE.CLOSED)
             ELSE s1
    IN Return(b, testKey)

\* =================================================================== program P
\* src/unnamed/part_002; its fetchJiraWorkflowTransitions and
\* updateJiraBugStatus, lines 216-268, have the text of those of program S.

\* Verdict, lines 307-308.
P_status(tests) ==
    LET list == IF tests.present THEN tests.list ELSE <<>>
    IN IF \A i \in 1..Len(list) : list[i] = "pass"
       THEN TEST_STATUS.PASSED ELSE TEST_STATUS.FAILED

\* linkTestToTestSet, lines 176-206: a failure is logged and swallowed.
P_linkTestToTestSet(st, fail, testKey) ==
    IF st.thrown THEN st ELSE Emit(st, fail, "addToSet", testKey, 0, "", TRUE)

\* createOrUpdateXrayTestCase, lines 96-149.
P_createOrUpdateXrayTestCase(st, fail, ord, name) ==
    LET s1 == Must(st, fail, "search", 0, 0, "Test")
        found == {k \in 1..Len(st.iss) : LET i == st.iss[k] IN i.type = "Test" /\ i.kind = "plain" /\ i.name = name}
        s2 == IF s1.thrown THEN s1
              ELSE IF found # {} THEN Return(s1, First(found, ord))
              ELSE CreateIssue(s1, fail, Issue("Test", "plain", name, 0, 0, 0, "open"))
        s3 == P_linkTestToTestSet(s2, fail, s2.ret)
    IN Return(MustBearer(s3, fail, "addToExec", s2.ret, 0, "", "token"), s2.ret)

\* One iteration of the loop for a record whose name matched, lines 304-328.
P_iteration(wf, map, iss, fail, ord, rec) ==
    LET status == P_status(rec.tests)
        c == P_createOrUpdateXrayTestCase(St0(iss), fail, ord, rec.name)
        jiraTestKey == c.ret
    IN IF c.thrown THEN c
       ELSE IF status = TEST_STATUS.FAILED
       THEN S_updateJiraBugStatus(wf, map, c, fail, jiraTestKey, BUG_LIFECYCLE.REOPENED)
       ELSE S_updateJiraBugStatus(wf, map, c, fail, jiraTestKey, BUG_LIFECYCLE.CLOSED)

\* =================================================================== program V
\* src/unnamed/part_004.  Its fetchJiraWorkflowTransitions (350-373),
\* updateJiraBugStatus (414-434), linkBugToTestCase (459-477),
\* createOrUpdateBugForTest (484-511) and findExistingBugForTest (557-571)
\* have the text of those of program S.

\* Verdict, lines 651-659: exec.tests is read without a guard, so a record
\* without the field raises a TypeError at testAssertions.length.
V_overallStatus(tests) ==
    IF ~tests.present THEN "TypeError"
    ELSE IF Len(tests.list) > 0
    THEN LET anyFailed == \E i \in 1..Len(tests.list) : tests.list[i] = "fail"
         IN IF anyFailed THEN TEST_STATUS.FAILED ELSE TEST_STATUS.PASSED
    ELSE TEST_STATUS.SKIPPED

\* linkTestToTestExecution, lines 254-281: the token exchange and the
\* GraphQL call are both inside the try block.
V_linkTestToTestExecution(st, fail, k) ==
    IF st.thrown THEN st
    ELSE LET a == Emit(st, fail, "auth", 0, 0, "", TRUE)
         IN IF ~LastOk(a) THEN a
            ELSE Bearer(Emit(a, fail, "addToExec", k, 0, "", TRUE), S_getXrayAuthToken)

\* createOrUpdateXrayTestCase, lines 118-171; addTestToTestSet, lines
\* 288-308, exchanges the token outside its try block as that of program S.
V_createOrUpdateXrayTestCase(st, fail, ord, name) ==
    LET s1 == Emit(st, fail, "search", 0, 0, "Test", TRUE)
        found == {k \in 1..Len(st.iss) : LET i == st.iss[k] IN i.type = "Test" /\ i.kind = "plain" /\ i.name = name}
        s2 == IF ~LastOk(s1) THEN Throw(s1)
              ELSE IF found # {} THEN Return(s1, First(found, ord))
              ELSE CreateIssue(s1, fail, Issue("Test", "plain", name, 0, 0, 0, "open"))
        s3 == S_addTest(s2, fail, "addToSet", s2.ret)
    IN Return(V_linkTestToTestExecution(s3, fail, s2.ret), s2.ret)

\* One iteration of the loop for a record whose name matched, lines 641-686.
V_iteration(wf, map, iss, fail, ord, rec) ==
    LET overallStatus == V_overallStatus(rec.tests)
        c == V_createOrUpdateXrayTestCase(St0(iss), fail, ord, rec.name)
        testKey == c.ret
    IN IF overallStatus = "TypeError" THEN Throw(St0(iss))
       ELSE IF c.thrown THEN c
       ELSE IF overallStatus = TEST_STATUS.FAILED
       THEN LET f == S_findExistingBugForTest(c, fail, ord, testKey)
                b == IF f.thrown \/ f.ret # 0 THEN f
                     ELSE S_createOrUpdateBugForTest(f, fail, ord, testKey, rec.name)
                l == S_linkBugToTestCase(b, fail, b.ret, testKey)
            IN Return(S_updateJiraBugStatus(wf, map, l, fail, b.ret, BUG_LIFECYCLE.REOPENED), testKey)
       ELSE IF overallStatus = TEST_STATUS.PASSED
       THEN LET f == S_findExistingBugForTest(c, fail, ord, testKey)
            IN IF f.thrown \/ f.ret = 0 THEN Return(f, testKey)
               ELSE Return(S_updateJiraBugStatus(wf, map, f, fail, f.ret, BUG_LIFECYCLE.CLOSED), testKey)
       ELSE c

\* ------------------------------------------------------------------ runs
\* What the run finds at the path of the results file: a well-formed report,
\* no file, a file that is not JSON, JSON without the run object, a run
\* without executions, a collection name without a key in brackets, or a
\* collection name with the execution key only.
Inputs == {"ok", "missing", "badjson", "norun", "noexecs", "nokeys", "onekey"}

\* JSON.parse(fs.readFileSync(...)) returns, and run.executions is there to
\* be iterated.
Readable(input) == input \notin {"missing", "badjson"}
HasExecutions(input) == input \notin {"norun", "noexecs"}

\* The keys the collection name of a readable file holds; without the run
\* object the name is the fallback 'Unknown Collection'.
CollectionName(input) ==
    [te |-> input \in {"ok", "noexecs", "onekey"}, ts |-> input \in {"ok", "noexecs"}]

\* The test of part_002 as one that throws only when both keys are missing.
P_keysMatchEither(name) == ~(~name.te /\ ~name.ts)

\* Lines 583-586 of program S (612-615 of V): RE_JIRA_KEYS needs two keys in
\* brackets.  Lines 282-284 of P: if (!teMatch || !tsMatch) throw.
S_keysMatch(name) == name.te /\ name.ts
P_keysMatch(name) == ~(~name.te \/ ~name.ts)
NameSeqs(n) == UNION {[1..m -> Names] : m \in 0..n}
NoPrev == [report |-> <<>>, rest |-> <<>>]

\* Bugs a person filed by hand for the test case with key 2, before any run;
\* only the search of program S reads the "Test Case" field they carry.
\* Programs S, P and V read the transitions of the first issue of the project.
Seeds(p) == IF p \in {"S", "P", "V"}
            THEN {<<>>} \cup {<<Issue("Bug", "manual", NoName, 0, 2, 0, s)>> : s \in Statuses}
            ELSE {<<>>}

Idle == pc \in {"init", "idle"}

\* The first run against a tracker may be remembered, to be repeated by the
\* second run.
ModesAtStart == IF mode = "replay" THEN {"replay"}
                ELSE IF pc = "init" THEN {"free", "keep"} ELSE {"free"}

Begin(m) ==
    /\ mode' = m
    /\ idx' = 0
    /\ report' = <<>>
    /\ rest' = <<>>
    /\ stats' = NoStats
    /\ imported' = <<>>
    /\ UNCHANGED <<workflow, prog, issues, prev, xrayToken>>

\* Length of the report a repeated run reads.
PrevLen == Len(prev.report) + Len(prev.rest)

\* The records position idx+1 of the report may hold.
RecordsHere ==
    IF mode # "replay" THEN ExecRecords
    ELSE IF idx + 1 <= Len(prev.report) THEN {prev.report[idx + 1]}
    ELSE {r \in ExecRecords : r.name = prev.rest[idx + 1 - Len(prev.report)]}
MoreRecords == IF mode = "replay" THEN idx < PrevLen ELSE idx < MaxRecs

\* The names that follow position idx+1 when the loop is left there; a run
\* that is not remembered leaves them undrawn.
RestsHere ==
    IF mode = "free" THEN {<<>>}
    ELSE IF mode = "keep" THEN NameSeqs(MaxRecs - (idx + 1))
    ELSE {[i \in 1..(PrevLen - (idx + 1)) |->
              LET j == idx + 1 + i
              IN IF j <= Len(prev.report) THEN prev.report[j].name
                 ELSE prev.rest[j - Len(prev.report)]]}

Keep(rec) == IF mode = "keep" THEN Append(report, rec) ELSE report

\* A remembered run and its repetition are runs whose remote calls are all
\* answered; any other run may see calls fail.
FailsIn(m) == IF m = "free" THEN FailSets ELSE {{}}

\* Module load and syncPostmanResults up to the loop.  Loading the module
\* runs the function expressions of lines 246-254 and 429-437, each of which
\* sends GET /rest/api/3/field and waits; in the same turn the entry point of
\* lines 690-693 calls syncPostmanResults, lines 566-600, whose first request
\* leaves while those are unanswered.
S_Start ==
    /\ Idle /\ prog = "S"
    /\ LET map == S_fetchJiraWorkflowTransitions(workflow, issues, 1)
       IN \E input \in Inputs, m \in ModesAtStart : \E fail \in FailsIn(m) :
            LET t == GetTransitions(workflow, St0(issues), fail, 1)
                l == IF LastOk(t) THEN Emit(t, fail, "linkTypes", 0, 0, "", TRUE) ELSE t
                ok == /\ LastOk(l) /\ Readable(input)
                      /\ S_keysMatch(CollectionName(input)) /\ HasExecutions(input)
            IN /\ fail \subseteq 1..2
               /\ m # "free" => input = "ok"
               /\ Begin(m)
               /\ workflowMap' = IF LastOk(t) THEN map ELSE NoMap
               /\ pc' = IF ok THEN "loop" ELSE "done"
               /\ exitCode' = IF ok THEN -1 ELSE 0
               /\ last' = [NoLast EXCEPT !.prog = "S", !.log = l.log, !.thrown = ~ok,
                                         !.before = issues]
               /\ file' = input
               /\ fields' = "inflight"

\* One pass of the loop body, lines 601-654, with the catch of lines 657-659.
S_Record ==
    /\ prog = "S" /\ pc = "loop" /\ last = NoLast /\ MoreRecords
    /\ \E rec \in RecordsHere :
         IF rec.name.k = 0
         THEN /\ stats' = [stats EXCEPT !.skipped = @ + 1]
              /\ last' = [NoLast EXCEPT !.prog = "S", !.name = rec.name, !.tests = rec.tests,
                                        !.before = issues]
              /\ idx' = idx + 1
              /\ report' = Keep(rec)
              /\ UNCHANGED <<issues, pc, exitCode, rest>>
         ELSE \E fail \in FailsIn(mode), ord \in Orders :
                \E r \in {S_iteration(workflow, workflowMap, issues, fail, ord, rec)} :
                   /\ ord = "desc" => Len(issues) > 1
                   /\ fail \subseteq 1..Len(r.log)
                   /\ Len(r.iss) <= MaxIssues
                   /\ issues' = r.iss
                   /\ stats' = [stats EXCEPT !.attempts = @ + 1,
                                             !.created = @ + Creates(r.log),
                                             !.errored = @ + (IF r.thrown THEN 1 ELSE 0)]
                   /\ last' = [prog |-> "S", name |-> rec.name, tests |-> rec.tests,
                               matched |-> TRUE, verdict |-> S_overallStatus(rec.tests),
                               testKey |-> r.ret, before |-> issues, log |-> r.log,
                               thrown |-> r.thrown]
                   /\ idx' = idx + 1
                   /\ report' = Keep(rec)
                   /\ IF r.thrown
                      THEN /\ pc' = "done" /\ exitCode' = 0
                           /\ \E rs \in RestsHere : rest' = rs
                      ELSE UNCHANGED <<pc, exitCode, rest>>
    /\ UNCHANGED <<workflow, prog, mode, imported, prev, workflowMap, xrayToken, file, fields>>

\* The answers to GET /rest/api/3/field have arrived, lines 246-254 and
\* 429-437; nothing waits for them, so they may come at any point of the run
\* or after it.
S_FieldsAnswered ==
    /\ prog \in {"S", "V"} /\ fields = "inflight" /\ pc \in {"loop", "done"}
    /\ fields' = "answered"
    /\ UNCHANGED <<workflow, prog, issues, pc, mode, report, imported, rest, prev, idx,
                   workflowMap, xrayToken, stats, last, exitCode, file>>

\* GET /rest/api/3/field fails: fetchJiraCustomFields rethrows, lines 239-242,
\* and the function expressions of lines 246-254 and 429-437 have no handler,
\* so the rejection ends the process with status 1 (the pipeline runs Node 16,
\* Jenkinsfile line 128).
S_FieldsFailed ==
    /\ prog \in {"S", "V"} /\ fields = "inflight" /\ pc \in {"loop", "done"} /\ mode = "free"
    /\ fields' = "failed"
    /\ pc' = "done"
    /\ exitCode' = 1
    /\ UNCHANGED <<workflow, prog, issues, mode, report, imported, rest, prev, idx,
                   workflowMap, xrayToken, stats, last, file>>

\* ------------------------------------------------------------------ program R
\* The settings read from the environment at lines 4-10 that have no default.
R_Settings == {"XRAY_BASE_URL", "XRAY_CLIENT_ID", "XRAY_CLIENT_SECRET",
               "JIRA_BASE_URL", "JIRA_USER", "JIRA_API_TOKEN"}

\* The settings that are set (and not empty) in the environment of a run: a
\* run named after a setting lacks that one, "noenv" lacks them all, any
\* other run has them all and a results file as its name says.
R_Env(input) ==
    IF input = "noenv" THEN {}
    ELSE IF input \in R_Settings THEN R_Settings \ {input}
    ELSE R_Settings

\* The test of line 16 without its last operand.
R_envMissingFive(env) ==
    \/ "XRAY_BASE_URL" \notin env \/ "XRAY_CLIENT_ID" \notin env
    \/ "XRAY_CLIENT_SECRET" \notin env
    \/ "JIRA_BASE_URL" \notin env \/ "JIRA_USER" \notin env

\* The test of line 16: an unset or empty setting is falsy.
R_envMissing(env) ==
    \/ "XRAY_BASE_URL" \notin env \/ "XRAY_CLIENT_ID" \notin env
    \/ "XRAY_CLIENT_SECRET" \notin env
    \/ "JIRA_BASE_URL" \notin env \/ "JIRA_USER" \notin env
    \/ "JIRA_API_TOKEN" \notin env

\* Top level and main up to processFailedTests, lines 16-19 and 198-213: the
\* environment is tested when the module loads, before main is called at
\* line 216; main tests for the file, reads it, and sends the two requests.
R_Start ==
    /\ Idle /\ prog = "R"
    /\ \E input \in Inputs \cup {"noenv"} \cup R_Settings, m \in ModesAtStart :
       \E fail \in FailsIn(m) :
         LET readable == ~R_envMissing(R_Env(input)) /\ input \notin {"missing", "badjson"}
             a == IF readable THEN Emit(St0(issues), fail, "auth", 0, 0, "", TRUE)
                  ELSE St0(issues)
             i == IF readable /\ LastOk(a)
                  THEN Bearer(Emit(a, fail, "import", 0, 0, "", TRUE), "token") ELSE a
             ok == readable /\ LastOk(i)
         IN /\ fail \subseteq 1..2
            /\ m # "free" => input = "ok"
            /\ Begin(m)
            /\ pc' = IF ok THEN "loop" ELSE "done"
            /\ exitCode' = IF ok THEN -1 ELSE 1
            /\ last' = [NoLast EXCEPT !.prog = "R", !.log = i.log, !.thrown = ~ok,
                                      !.before = issues]
            /\ file' = input
            /\ UNCHANGED <<workflowMap, fields>>

R_TestsHere == IF mode = "replay" THEN {prev.report[idx + 1]} ELSE ImportedTests
R_MoreTests == IF mode = "replay" THEN idx < Len(prev.report) ELSE idx < MaxRecs

\* processFailedTests, lines 140-176: one entry of the tests array.
R_Failed ==
    /\ prog = "R" /\ pc = "loop" /\ last = NoLast /\ R_MoreTests
    /\ \E t \in R_TestsHere :
         /\ imported' = IF t.status = "PASSED" /\ t.testKey # 0
                        THEN Append(imported, t.testKey) ELSE imported
         /\ report' = Keep(t)
         /\ idx' = idx + 1
         /\ IF t.status # "FAILED"
            THEN UNCHANGED <<issues, stats, last>>
            ELSE IF t.testKey = 0
            THEN /\ stats' = [stats EXCEPT !.skipped = @ + 1]
                 /\ last' = [NoLast EXCEPT !.prog = "R", !.verdict = t.status, !.before = issues]
                 /\ UNCHANGED issues
            ELSE \E fail \in FailsIn(mode) :
                   \E r \in {R_processFailed(workflow, issues, fail, t.testKey)} :
                      /\ Len(r.iss) <= MaxIssues
                      /\ fail \subseteq 1..Len(r.log)
                      /\ issues' = r.iss
                      /\ stats' = [stats EXCEPT !.attempts = @ + 1,
                                                !.created = @ + Creates(r.log)]
                      /\ last' = [NoLast EXCEPT !.prog = "R", !.matched = TRUE,
                                                !.verdict = t.status, !.testKey = t.testKey,
                                                !.before = issues, !.log = r.log]
    /\ UNCHANGED <<workflow, prog, pc, mode, rest, prev, workflowMap, xrayToken, exitCode,
                   file, fields>>

\* main, lines 209-215: an empty tests array ends the run, otherwise
\* processPassedTests follows processFailedTests.
R_EndFailed ==
    /\ prog = "R" /\ pc = "loop" /\ last = NoLast
    /\ mode = "replay" => idx = Len(prev.report)
    /\ pc' = IF idx = 0 THEN "done" ELSE "passed"
    /\ exitCode' = IF idx = 0 THEN 0 ELSE exitCode
    /\ idx' = 0
    /\ UNCHANGED <<workflow, prog, issues, mode, report, imported, rest, prev,
                   workflowMap, xrayToken, stats, last, file, fields>>

\* processPassedTests, lines 178-196: one entry of the tests array.
R_Passed ==
    /\ prog = "R" /\ pc = "passed" /\ last = NoLast /\ idx < Len(imported)
    /\ LET testKey == imported[idx + 1]
       IN /\ idx' = idx + 1
          /\ \E fail \in FailsIn(mode) :
               \E r \in {R_processPassed(workflow, issues, fail, testKey)} :
                  /\ fail \subseteq 1..Len(r.log)
                  /\ issues' = r.iss
                  /\ stats' = [stats EXCEPT !.attempts = @ + 1]
                  /\ last' = [NoLast EXCEPT !.prog = "R", !.matched = TRUE,
                                            !.verdict = "PASSED", !.testKey = testKey,
                                            !.before = issues, !.log = r.log]
    /\ UNCHANGED <<workflow, prog, pc, mode, report, imported, rest, prev, workflowMap, xrayToken,
                   exitCode, file, fields>>

R_EndPassed ==
    /\ prog = "R" /\ pc = "passed" /\ last = NoLast /\ idx = Len(imported)
    /\ pc' = "done"
    /\ exitCode' = 0
    /\ UNCHANGED <<workflow, prog, issues, mode, report, imported, rest, prev, idx,
                   workflowMap, xrayToken, stats, last, file, fields>>

\* ------------------------------------------------------------------ program D
\* syncPostmanResults up to the loop, lines 1272-1284.
D_Start ==
    /\ Idle /\ prog = "D"
    /\ \E input \in Inputs, m \in ModesAtStart : \E fail \in FailsIn(m) :
         LET keys == input \in {"ok", "noexecs"}
             a == IF keys THEN Emit(St0(issues), fail, "auth", 0, 0, "", TRUE) ELSE St0(issues)
             ok == input = "ok" /\ LastOk(a)
         IN /\ fail \subseteq 1..1
            /\ m # "free" => input = "ok"
            /\ Begin(m)
            /\ pc' = IF ok THEN "loop" ELSE "done"
            /\ exitCode' = IF ok THEN -1 ELSE 0
            /\ last' = [NoLast EXCEPT !.prog = "D", !.log = a.log, !.thrown = ~ok,
                                      !.before = issues]
            /\ file' = input
            /\ UNCHANGED <<workflowMap, fields>>

\* One pass of the loop body, lines 1286-1326, with the catch of lines 1329-1331.
D_Record ==
    /\ prog = "D" /\ pc = "loop" /\ last = NoLast /\ MoreRecords
    /\ \E rec \in RecordsHere :
         IF rec.name.k = 0
         THEN /\ stats' = [stats EXCEPT !.skipped = @ + 1]
              /\ last' = [NoLast EXCEPT !.prog = "D", !.name = rec.name, !.tests = rec.tests,
                                        !.before = issues]
              /\ idx' = idx + 1
              /\ report' = Keep(rec)
              /\ UNCHANGED <<issues, pc, exitCode, rest>>
         ELSE \E fail \in FailsIn(mode), ord \in Orders :
                \E r \in {D_iteration(workflow, issues, fail, ord, rec)} :
                   /\ ord = "desc" => Len(issues) > 1
                   /\ fail \subseteq 1..Len(r.log)
                   /\ Len(r.iss) <= MaxIssues
                   /\ issues' = r.iss
                   /\ stats' = [stats EXCEPT !.attempts = @ + 1,
                                             !.created = @ + Creates(r.log),
                                             !.errored = @ + (IF r.thrown THEN 1 ELSE 0)]
                   /\ last' = [prog |-> "D", name |-> rec.name, tests |-> rec.tests,
                               matched |-> TRUE, verdict |-> D_testStatus(rec.tests),
                               testKey |-> r.ret, before |-> issues, log |-> r.log,
                               thrown |-> r.thrown]
                   /\ idx' = idx + 1
                   /\ report' = Keep(rec)
                   /\ IF r.thrown
                      THEN /\ pc' = "done" /\ exitCode' = 0
                           /\ \E rs \in RestsHere : rest' = rs
                      ELSE UNCHANGED <<pc, exitCode, rest>>
    /\ UNCHANGED <<workflow, prog, mode, imported, prev, workflowMap, xrayToken, file, fields>>

\* ------------------------------------------------------------------ program A
\* main up to the loop, lines 233-254; a run without executions has an empty
\* loop.
A_Start ==
    /\ Idle /\ prog = "A"
    /\ \E input \in Inputs, m \in ModesAtStart : \E fail \in FailsIn(m) :
         LET keys == input \in {"ok", "noexecs"}
             a == IF keys THEN Emit(St0(issues), fail, "auth", 0, 0, "", TRUE) ELSE St0(issues)
             authed == keys /\ LastOk(a)
             ok == input = "ok" /\ authed
         IN /\ fail \subseteq 1..1
            /\ m # "free" => input = "ok"
            /\ Begin(m)
            /\ pc' = IF ok THEN "loop" ELSE "done"
            /\ exitCode' = IF ok THEN -1 ELSE IF authed THEN 0 ELSE 1
            /\ last' = [NoLast EXCEPT !.prog = "A", !.log = a.log, !.thrown = ~authed,
                                      !.before = issues]
            /\ file' = input
            /\ UNCHANGED <<workflowMap, fields>>

\* One pass of the loop body, lines 256-301, with the catch of lines 305-308.
A_Record ==
    /\ prog = "A" /\ pc = "loop" /\ last = NoLast /\ MoreRecords
    /\ \E rec \in RecordsHere :
         IF rec.name.k = 0
         THEN /\ stats' = [stats EXCEPT !.skipped = @ + 1]
              /\ last' = [NoLast EXCEPT !.prog = "A", !.name = rec.name, !.tests = rec.tests,
                                        !.before = issues]
              /\ idx' = idx + 1
              /\ report' = Keep(rec)
              /\ UNCHANGED <<issues, pc, exitCode, rest>>
         ELSE \E fail \in FailsIn(mode), ord \in Orders :
                \E r \in {A_iteration(workflow, issues, fail, ord, rec)} :
                   /\ ord = "desc" => Len(issues) > 1
                   /\ fail \subseteq 1..Len(r.log)
                   /\ Len(r.iss) <= MaxIssues
                   /\ issues' = r.iss
                   /\ stats' = [stats EXCEPT !.attempts = @ + 1,
                                             !.created = @ + Creates(r.log),
                                             !.errored = @ + (IF r.thrown THEN 1 ELSE 0)]
                   /\ last' = [prog |-> "A", name |-> rec.name, tests |-> rec.tests,
                               matched |-> TRUE, verdict |-> A_status(rec.tests),
                               testKey |-> r.ret, before |-> issues, log |-> r.log,
                               thrown |-> r.thrown]
                   /\ idx' = idx + 1
                   /\ report' = Keep(rec)
                   /\ IF r.thrown
                      THEN /\ pc' = "done" /\ exitCode' = 1
                           /\ \E rs \in RestsHere : rest' = rs
                      ELSE UNCHANGED <<pc, exitCode, rest>>
    /\ UNCHANGED <<workflow, prog, mode, imported, prev, workflowMap, xrayToken, file, fields>>

\* ------------------------------------------------------------------ program F
\* main up to the loop, lines 1574-1577; the file needs no keys in the
\* collection name.
F_Start ==
    /\ Idle /\ prog = "F"
    /\ \E input \in Inputs, m \in ModesAtStart : \E fail \in FailsIn(m) :
         LET readable == input \notin {"missing", "badjson"}
             e == IF readable THEN F_createTestExecution(St0(issues), fail) ELSE St0(issues)
             ok == input \in {"ok", "nokeys", "onekey"} /\ readable /\ ~e.thrown
         IN /\ fail \subseteq 1..1
            /\ m # "free" => input = "ok"
            /\ Len(e.iss) <= MaxIssues
            /\ mode' = m
            /\ idx' = 0
            /\ report' = <<>>
            /\ rest' = <<>>
            /\ imported' = <<>>
            /\ issues' = e.iss
            /\ stats' = [NoStats EXCEPT !.created = Creates(e.log)]
            /\ pc' = IF ok THEN "loop" ELSE "done"
            /\ exitCode' = IF ok THEN -1 ELSE 1
            /\ last' = [NoLast EXCEPT !.prog = "F", !.log = e.log, !.thrown = ~ok,
                                      !.before = issues]
            /\ file' = input
            /\ UNCHANGED <<workflow, prog, prev, workflowMap, xrayToken, fields>>

\* One pass of the loop body, lines 1579-1607; an exception ends the process
\* with status 1, lines 1613-1616.
F_Record ==
    /\ prog = "F" /\ pc = "loop" /\ last = NoLast /\ MoreRecords
    /\ \E rec \in RecordsHere : \E fail \in FailsIn(mode), ord \in Orders :
         \E r \in {F_iteration(workflow, issues, fail, ord, xrayToken, rec)} :
            /\ ord = "desc" => Len(issues) > 1
            /\ fail \subseteq 1..Len(r.log)
            /\ Len(r.iss) <= MaxIssues
            /\ issues' = r.iss
            /\ xrayToken' = (xrayToken \/ \E i \in 1..Len(r.log) : r.log[i].op = "auth" /\ r.log[i].ok)
            /\ stats' = [stats EXCEPT !.attempts = @ + 1,
                                      !.created = @ + Creates(r.log),
                                      !.errored = @ + (IF r.thrown THEN 1 ELSE 0)]
            /\ last' = [prog |-> "F", name |-> rec.name, tests |-> rec.tests,
                        matched |-> rec.name.k # 0,
                        verdict |-> IF F_failed(rec.tests) THEN "FAIL" ELSE "PASS",
                        testKey |-> r.ret, before |-> issues, log |-> r.log,
                        thrown |-> r.thrown]
            /\ idx' = idx + 1
            /\ report' = Keep(rec)
            /\ IF r.thrown
               THEN /\ pc' = "done" /\ exitCode' = 1
                    /\ \E rs \in RestsHere : rest' = rs
               ELSE UNCHANGED <<pc, exitCode, rest>>
    /\ UNCHANGED <<workflow, prog, mode, imported, prev, workflowMap, file, fields>>

\* ------------------------------------------------------------------ program P
\* syncPostmanResults up to the loop, lines 273-298: a collection name
\* without the two keys, an unreadable file and a failed request all end in
\* the catch of lines 333-335, which logs and returns.
P_Start ==
    /\ Idle /\ prog = "P"
    /\ LET map == S_fetchJiraWorkflowTransitions(workflow, issues, 1)
       IN \E input \in Inputs, m \in ModesAtStart : \E fail \in FailsIn(m) :
            LET t == GetTransitions(workflow, St0(issues), fail, 1)
                keys == Readable(input) /\ P_keysMatch(CollectionName(input))
                a == IF LastOk(t) /\ keys THEN Emit(t, fail, "auth", 0, 0, "", TRUE) ELSE t
                ok == LastOk(a) /\ keys /\ HasExecutions(input)
            IN /\ fail \subseteq 1..2
               /\ m # "free" => input = "ok"
               /\ Begin(m)
               /\ workflowMap' = IF LastOk(t) THEN map ELSE NoMap
               /\ pc' = IF ok THEN "loop" ELSE "done"
               /\ exitCode' = IF ok THEN -1 ELSE 0
               /\ last' = [NoLast EXCEPT !.prog = "P", !.log = a.log, !.thrown = ~ok,
                                         !.before = issues]
               /\ file' = input
               /\ UNCHANGED fields

\* One pass of the loop body, lines 300-329, with the catch of lines 333-335.
P_Record ==
    /\ prog = "P" /\ pc = "loop" /\ last = NoLast /\ MoreRecords
    /\ \E rec \in RecordsHere :
         IF rec.name.k = 0
         THEN /\ stats' = [stats EXCEPT !.skipped = @ + 1]
              /\ last' = [NoLast EXCEPT !.prog = "P", !.name = rec.name, !.tests = rec.tests,
                                        !.before = issues]
              /\ idx' = idx + 1
              /\ report' = Keep(rec)
              /\ UNCHANGED <<issues, pc, exitCode, rest>>
         ELSE \E fail \in FailsIn(mode), ord \in Orders :
                \E r \in {P_iteration(workflow, workflowMap, issues, fail, ord, rec)} :
                   /\ ord = "desc" => Len(issues) > 1
                   /\ fail \subseteq 1..Len(r.log)
                   /\ Len(r.iss) <= MaxIssues
                   /\ issues' = r.iss
                   /\ stats' = [stats EXCEPT !.attempts = @ + 1,
                                             !.created = @ + Creates(r.log),
                                             !.errored = @ + (IF r.thrown THEN 1 ELSE 0)]
                   /\ last' = [prog |-> "P", name |-> rec.name, tests |-> rec.tests,
                               matched |-> TRUE, verdict |-> P_status(rec.tests),
                               testKey |-> r.ret, before |-> issues, log |-> r.log,
                               thrown |-> r.thrown]
                   /\ idx' = idx + 1
                   /\ report' = Keep(rec)
                   /\ IF r.thrown
                      THEN /\ pc' = "done" /\ exitCode' = 0
                           /\ \E rs \in RestsHere : rest' = rs
                      ELSE UNCHANGED <<pc, exitCode, rest>>
    /\ UNCHANGED <<workflow, prog, mode, imported, prev, workflowMap, xrayToken, file, fields>>

\* ------------------------------------------------------------------ program V
\* Module load and syncPostmanResults up to the loop, lines 600-639.  Lines
\* 197-205 and 401-409 send GET /rest/api/3/field as lines 246-254 and
\* 429-437 of program S do.
V_Start ==
    /\ Idle /\ prog = "V"
    /\ LET map == S_fetchJiraWorkflowTransitions(workflow, issues, 1)
       IN \E input \in Inputs, m \in ModesAtStart : \E fail \in FailsIn(m) :
            LET t == GetTransitions(workflow, St0(issues), fail, 1)
                l == IF LastOk(t) THEN Emit(t, fail, "linkTypes", 0, 0, "", TRUE) ELSE t
                ok == /\ LastOk(l) /\ Readable(input)
                      /\ S_keysMatch(CollectionName(input)) /\ HasExecutions(input)
            IN /\ fail \subseteq 1..2
               /\ m # "free" => input = "ok"
               /\ Begin(m)
               /\ workflowMap' = IF LastOk(t) THEN map ELSE NoMap
               /\ pc' = IF ok THEN "loop" ELSE "done"
               /\ exitCode' = IF ok THEN -1 ELSE 0
               /\ last' = [NoLast EXCEPT !.prog = "V", !.log = l.log, !.thrown = ~ok,
                                         !.before = issues]
               /\ file' = input
               /\ fields' = "inflight"

\* One pass of the loop body, lines 641-687, with the catch of lines 690-692.
V_Record ==
    /\ prog = "V" /\ pc = "loop" /\ last = NoLast /\ MoreRecords
    /\ \E rec \in RecordsHere :
         IF rec.name.k = 0
         THEN /\ stats' = [stats EXCEPT !.skipped = @ + 1]
              /\ last' = [NoLast EXCEPT !.prog = "V", !.name = rec.name, !.tests = rec.tests,
                                        !.before = issues]
              /\ idx' = idx + 1
              /\ report' = Keep(rec)
              /\ UNCHANGED <<issues, pc, exitCode, rest>>
         ELSE \E fail \in FailsIn(mode), ord \in Orders :
                \E r \in {V_iteration(workflow, workflowMap, issues, fail, ord, rec)} :
                   /\ ord = "desc" => Len(issues) > 1
                   /\ fail \subseteq 1..Len(r.log)
                   /\ Len(r.iss) <= MaxIssues
                   /\ issues' = r.iss
                   /\ stats' = [stats EXCEPT !.attempts = @ + 1,
                                             !.created = @ + Creates(r.log),
                                             !.errored = @ + (IF r.thrown THEN 1 ELSE 0)]
                   /\ last' = [prog |-> "V", name |-> rec.name, tests |-> rec.tests,
                               matched |-> TRUE, verdict |-> V_overallStatus(rec.tests),
                               testKey |-> r.ret, before |-> issues, log |-> r.log,
                               thrown |-> r.thrown]
                   /\ idx' = idx + 1
                   /\ report' = Keep(rec)
                   /\ IF r.thrown
                      THEN /\ pc' = "done" /\ exitCode' = 0
                           /\ \E rs \in RestsHere : rest' = rs
                      ELSE UNCHANGED <<pc, exitCode, rest>>
    /\ UNCHANGED <<workflow, prog, mode, imported, prev, workflowMap, xrayToken, file, fields>>

\* The loop goes on to its next element; what the step before did is history
\* no longer.
NextRecord ==
    /\ pc \in {"loop", "passed"} /\ last # NoLast
    /\ last' = NoLast
    /\ UNCHANGED <<workflow, prog, issues, pc, mode, report, imported, rest, prev, idx,
                   workflowMap, xrayToken, stats, exitCode, file, fields>>

\* The loop runs off the end of the executions array and the run returns.
EndOfReport ==
    /\ prog \in {"S", "D", "A", "F", "P", "V"} /\ pc = "loop" /\ last = NoLast
    /\ mode = "replay" => idx = PrevLen
    /\ pc' = "done"
    /\ exitCode' = 0
    /\ UNCHANGED <<workflow, prog, issues, mode, report, imported, rest, prev, idx,
                   workflowMap, xrayToken, stats, last, file, fields>>

\* The process has ended; the next pipeline run starts a new one.  Only the
\* tracker outlives the process.
Exit ==
    /\ pc = "done" /\ fields # "inflight"
    /\ pc' = "idle"
    /\ mode' = IF mode = "keep" THEN "replay" ELSE "free"
    /\ prev' = IF mode = "keep" THEN [report |-> report, rest |-> rest] ELSE NoPrev
    /\ report' = <<>>
    /\ rest' = <<>>
    /\ idx' = 0
    /\ workflowMap' = NoMap
    /\ xrayToken' = FALSE
    /\ stats' = NoStats
    /\ last' = NoLast
    /\ exitCode' = -1
    /\ imported' = <<>>
    /\ file' = "none"
    /\ fields' = "none"
    /\ UNCHANGED <<workflow, prog, issues>>

Init ==
    /\ workflow \in Workflows
    /\ prog \in Programs
    /\ issues \in Seeds(prog)
    /\ pc = "init"
    /\ mode = "free"
    /\ report = <<>>
    /\ imported = <<>>
    /\ rest = <<>>
    /\ prev = NoPrev
    /\ idx = 0
    /\ workflowMap = NoMap
    /\ xrayToken = FALSE
    /\ stats = NoStats
    /\ last = NoLast
    /\ exitCode = -1
    /\ file = "none"
    /\ fields = "none"

Next ==
    \/ S_Start
    \/ S_Record
    \/ S_FieldsAnswered
    \/ S_FieldsFailed
    \/ R_Start
    \/ R_Failed
    \/ R_EndFailed
    \/ R_Passed
    \/ R_EndPassed
    \/ D_Start
    \/ D_Record
    \/ A_Start
    \/ A_Record
    \/ F_Start
    \/ F_Record
    \/ P_Start
    \/ P_Record
    \/ V_Start
    \/ V_Record
    \/ NextRecord
    \/ EndOfReport
    \/ Exit

Spec == Init /\ [][Next]_vars

\* The same pipeline restricted to one program.
InitS == Init /\ prog = "S"
NextS ==
    \/ S_Start \/ S_Record \/ S_FieldsAnswered \/ S_FieldsFailed
    \/ NextRecord \/ EndOfReport \/ Exit
SpecS == InitS /\ [][NextS]_vars

InitR == Init /\ prog = "R"
NextR == R_Start \/ R_Failed \/ R_EndFailed \/ R_Passed \/ R_EndPassed \/ NextRecord \/ Exit
SpecR == InitR /\ [][NextR]_vars

InitD == Init /\ prog = "D"
NextD == D_Start \/ D_Record \/ NextRecord \/ EndOfReport \/ Exit
SpecD == InitD /\ [][NextD]_vars

InitA == Init /\ prog = "A"
NextA == A_Start \/ A_Record \/ NextRecord \/ EndOfReport \/ Exit
SpecA == InitA /\ [][NextA]_vars

InitF == Init /\ prog = "F"
NextF == F_Start \/ F_Record \/ NextRecord \/ EndOfReport \/ Exit
SpecF == InitF /\ [][NextF]_vars

InitP == Init /\ prog = "P"
NextP == P_Start \/ P_Record \/ NextRecord \/ EndOfReport \/ Exit
SpecP == InitP /\ [][NextP]_vars

\* The two programs that read both keys from the collection name before
\* their loop.
InitSP == Init /\ prog \in {"S", "P"}
NextSP ==
    \/ S_Start \/ S_Record \/ S_FieldsAnswered \/ S_FieldsFailed
    \/ P_Start \/ P_Record
    \/ NextRecord \/ EndOfReport \/ Exit
SpecSP == InitSP /\ [][NextSP]_vars

InitV == Init /\ prog = "V"
NextV ==
    \/ V_Start \/ V_Record \/ S_FieldsAnswered \/ S_FieldsFailed
    \/ NextRecord \/ EndOfReport \/ Exit
SpecV == InitV /\ [][NextV]_vars

\* The three programs whose failed branch tests the status of the bug found.
InitSRD == Init /\ prog \in {"S", "R", "D"}
NextSRD ==
    \/ S_Start \/ S_Record \/ S_FieldsAnswered \/ S_FieldsFailed
    \/ R_Start \/ R_Failed \/ R_EndFailed \/ R_Passed \/ R_EndPassed
    \/ D_Start \/ D_Record
    \/ NextRecord \/ EndOfReport \/ Exit
SpecSRD == InitSRD /\ [][NextSRD]_vars

\* =================================================================== claims

\* A step of program p has handled a record whose name carries a case key.
Handled(p) == last.prog = p /\ last.matched

\* C1: in syncPostmanResults of program S the verdict of a record depends on
\* its assertion list only: absent or empty gives SKIPPED, a list with an
\* assertion that did not pass gives FAILED, a non-empty list of passed
\* assertions gives PASSED.
C1_Verdict ==
    Handled("S") =>
        LET a == last.tests
        IN /\ (~a.present \/ Len(a.list) = 0) => last.verdict = "SKIPPED"
           /\ (a.present /\ \E i \in 1..Len(a.list) : a.list[i] # "pass")
                  => last.verdict = "FAILED"
           /\ (a.present /\ Len(a.list) > 0 /\ \A i \in 1..Len(a.list) : a.list[i] = "pass")
                  => last.verdict = "PASSED"

\* A record with one passed and one failed assertion got its verdict.
C1_Witness ==
    /\ Handled("S") /\ last.verdict = "FAILED"
    /\ last.tests.list = <<"pass", "fail">>

\* Every request of the latest step got a 2xx answer.
AllAnswered == \A i \in 1..Len(last.log) : last.log[i].ok

\* The bugs the search of program p returns for a test key in a tracker.
BugsFor(p, iss, testKey) ==
    IF p \in {"S", "V"} THEN S_bugsOf(iss, testKey)
    ELSE IF p = "R" THEN R_bugsOf(iss, testKey)
    ELSE IF p = "D" THEN D_bugsOf(iss, testKey)
    ELSE F_bugsOf(iss, testKey)

\* Bugs of the handled record's test case before the step, by status.
BugsBefore == BugsFor(last.prog, last.before, last.testKey)
ClosedBefore == {b \in BugsBefore : last.before[b].status = "closed"}
OpenBefore == {b \in BugsBefore : last.before[b].status # "closed"}

\* Requests of the latest step.
Requested(op, k, s) ==
    \E i \in 1..Len(last.log) :
        last.log[i].op = op /\ last.log[i].k = k /\ last.log[i].s = s /\ last.log[i].ok
BugCreates == Cardinality({n \in 1..Len(last.log) : LET r == last.log[n] IN r.op = "create" /\ r.s = "Bug"})

\* The test case of the handled record was in the tracker before the step.
TestBefore == last.testKey \in 1..Len(last.before)

\* C2: a FAILED verdict whose test case has a closed bug makes the run
\* request the transition of that bug to REOPENED, and creates no bug.
C2_Reopen ==
    (Handled("S") /\ last.verdict = "FAILED" /\ AllAnswered /\ TestBefore
        /\ ClosedBefore # {})
        => /\ \E b \in ClosedBefore : Requested("transition", b, "REOPENED")
           /\ BugCreates = 0

\* C3: a PASSED verdict whose test case has a bug that is not closed makes
\* the run request the transition of that bug to CLOSED.
C3_Close ==
    (Handled("S") /\ last.verdict = "PASSED" /\ AllAnswered /\ TestBefore
        /\ OpenBefore # {})
        => \E b \in OpenBefore : Requested("transition", b, "CLOSED")

\* C4: a FAILED verdict whose test case has no bug makes the run create
\* exactly one bug, link it to the test case and leave it open, without
\* asking for REOPENED.
C4_Create ==
    (Handled("S") /\ last.verdict = "FAILED" /\ AllAnswered /\ TestBefore
        /\ BugsBefore = {})
        => /\ BugCreates = 1
           /\ \E i \in 1..Len(last.log) : last.log[i].op = "link" /\ last.log[i].ok
           /\ issues[Len(issues)].type = "Bug" /\ issues[Len(issues)].status = "open"
           /\ \A i \in 1..Len(last.log) :
                ~(last.log[i].op = "transition" /\ last.log[i].s = "REOPENED")

\* Requests of the latest step to the transitions endpoint of issue b: the
\* listing and the transition itself.
TransitionCalls(b) ==
    Cardinality({n \in 1..Len(last.log) : LET r == last.log[n] IN r.op \in {"transitions", "transition"} /\ r.k = b})

C6_NoBugAction ==
    (Handled("A") /\ last.verdict = "PASSED" /\ AllAnswered /\ TestBefore
        /\ A_bugsOf(last.before, last.name) = {})
        => /\ BugCreates = 0
           /\ \A i \in 1..Len(last.log) : last.log[i].op \notin {"transition", "link"}

\* C7: whatever verdicts the runs bring, the tracker never holds two bugs
\* for one test case.
C7_OneBug ==
    prog = "R" => \A k \in 1..MaxKey : Cardinality(R_bugsOf(issues, k)) <= 1

\* C8: a run that repeats the report of the run before it, on the tracker
\* that run left, creates neither a test case nor a bug.
C8_Idempotent ==
    mode = "replay" =>
        Cardinality({n \in 1..Len(last.log) : LET r == last.log[n] IN r.op = "create" /\ r.s \in {"Test", "Bug"} /\ r.ok}) = 0

\* The names of the report of a remembered run that is over.
ReportNames == [i \in 1..Len(report) |-> report[i].name] \o rest
Finished == pc = "done" /\ mode = "keep"
Keyed == {i \in 1..Len(ReportNames) : ReportNames[i].k # 0}

\* C9: two records of one run with the same case key give one test case:
\* the second is searched for and found.
C9_OneTestCase ==
    (Finished /\ \E i, j \in Keyed : i < j /\ ReportNames[i].k = ReportNames[j].k)
        => stats.attempts >= 2 /\ stats.created <= 1

\* C10: of the N records of a report, the K whose name carries a case key
\* are each put to the find-or-create operation and the other N-K skipped.
C10_Attempts ==
    Finished =>
        /\ stats.attempts = Cardinality(Keyed)
        /\ stats.skipped = Len(ReportNames) - Cardinality(Keyed)

\* A request of the latest step got a non-2xx answer.
SomeFailed == \E i \in 1..Len(last.log) : ~last.log[i].ok

\* C11: a remote call that fails while a record is handled ends the work on
\* that record only; the loop stays open for the records after it.
C11_Continue ==
    (Handled("S") /\ SomeFailed /\ fields # "failed") => pc = "loop"

\* The process of the run has ended: syncPostmanResults or main has returned
\* and no request is left unanswered.
Ended == pc = "done" /\ fields # "inflight"

\* C12: a run in which the handling of a record ended with a remote error
\* ends with a non-zero status; a run without an errored record and without a
\* fatal error ends with status 0.
C12_ExitStatus ==
    Ended =>
        /\ (Handled("S") /\ last.thrown /\ SomeFailed) => exitCode # 0
        /\ (last.prog = "S" /\ stats.errored = 0 /\ ~last.thrown /\ fields # "failed")
              => exitCode = 0

\* The results file is missing, is not JSON, or is JSON without the run object
\* or without its executions.
Unparsable == file \in {"missing", "badjson", "norun", "noexecs"}

\* C13: a run that cannot parse its results file ends with a non-zero status
\* and has sent no create, link, transition or result-submission request
\* (stated for the runs whose earlier requests were all answered).
C13_ParseError ==
    (Ended /\ last.prog = "S" /\ Unparsable /\ AllAnswered) =>
        /\ exitCode # 0
        /\ \A i \in 1..Len(last.log) :
              last.log[i].op \notin {"create", "link", "transition", "submit", "import"}

\* Positions in the log of the latest step of a token exchange that failed.
AuthFailedAt == {i \in 1..Len(last.log) : last.log[i].op = "auth" /\ ~last.log[i].ok}

\* C14: a failed token exchange aborts the run: it is the last request the
\* run sends and the process ends with a non-zero status.
C14_AuthAbort ==
    (Ended /\ Handled("S") /\ AuthFailedAt # {}) =>
        /\ AuthFailedAt = {Len(last.log)}
        /\ exitCode # 0

\* The latest step read a record whose name carries no case key.
Skipped(p) == last.prog = p /\ idx > 0 /\ ~last.matched

\* C15: a record whose name does not match the case-key pattern is skipped:
\* no request is sent for it, the loop goes on and the exit status is not
\* set by it.
C15_Skip ==
    Skipped("F") =>
        /\ Len(last.log) = 0
        /\ issues = last.before
        /\ pc = "loop"

\* The record of the latest step has no assertions: none listed, or no list.
NoAssertions == ~last.tests.present \/ Len(last.tests.list) = 0

\* C16: a record without assertions, whose verdict is SKIPPED, causes no bug
\* action: no bug is created, linked, transitioned or given an attachment.
C16_SkippedNoBug ==
    (Handled("A") /\ NoAssertions /\ AllAnswered) =>
        /\ BugCreates = 0
        /\ \A i \in 1..Len(last.log) : last.log[i].op \notin {"transition", "link", "attach"}
        /\ \A k \in 1..Len(last.before) : issues[k] = last.before[k]

\* C17: for a record whose name carries a case key the run adds the test
\* case to the test set, then to the test execution, and then submits a
\* result with the record's verdict for it.
C17_LinkAndSubmit ==
    (Handled("S") /\ AllAnswered) =>
        \E i, j, n \in 1..Len(last.log) :
            /\ i < j /\ j < n
            /\ last.log[i].op = "addToSet" /\ last.log[i].k = last.testKey
            /\ last.log[j].op = "addToExec" /\ last.log[j].k = last.testKey
            /\ last.log[n].op = "submit" /\ last.log[n].k = last.testKey
            /\ last.log[n].s = last.verdict

\* Requests unanswered at the moment the latest step of program S sent a
\* request: that request, and the GET /rest/api/3/field of module load when
\* its answer is still to come.
InFlightAtSend ==
    IF last.prog = "S" /\ Len(last.log) > 0
    THEN 1 + (IF fields = "inflight" THEN 1 ELSE 0)
    ELSE 0

\* C18: the run is sequential: no request is sent while another is
\* unanswered.
C18_Sequential == InFlightAtSend <= 1

\* Calls of the authenticate endpoint by the latest step.
TokenExchanges == Cardinality({i \in 1..Len(last.log) : last.log[i].op = "auth"})

\* C19: the token is acquired once and reused: the authenticate endpoint is
\* called at most once in a run, so at most once while one record is handled.
C19_TokenOnce == Handled("S") => TokenExchanges <= 1

\* The test cases the tracker held before the latest step under the name of
\* the record: what the search of createOrUpdateXrayTestCase returns.
ExistingTests ==
    {k \in 1..Len(last.before) :
        /\ last.before[k].type = "Test" /\ last.before[k].kind = "plain"
        /\ last.before[k].name = last.name}

\* C20: when the search finds a test case, createOrUpdateXrayTestCase reuses
\* it as it is: it sends no create request for a test case, every request it
\* sends for the issue reads it or adds it to the set or the execution, and
\* the issue is in the tracker as it was.
C20_ReuseAsIs ==
    (Handled("S") /\ Len(last.log) > 0 /\ last.log[1].ok /\ ExistingTests # {}) =>
        /\ last.testKey \in ExistingTests
        /\ \A i \in 1..Len(last.log) :
              /\ ~(last.log[i].op = "create" /\ last.log[i].s = "Test")
              /\ last.log[i].k = last.testKey
                    => last.log[i].op \in {"get", "addToSet", "addToExec", "submit"}
        /\ \A k \in ExistingTests : issues[k] = last.before[k]
        /\ Len(issues) = Len(last.before)

\* A later run met the test case an earlier run had created and went on to
\* add it to the test set.
C20_Witness ==
    /\ Handled("S") /\ AllAnswered /\ ExistingTests # {}
    /\ \E i \in 1..Len(last.log) : last.log[i].op = "addToSet"

\* What a tracker holds, whatever keys its issues got: for every issue its
\* type, what its summary says and its status.
Summary(iss) ==
    {[type |-> iss[k].type, kind |-> iss[k].kind, name |-> iss[k].name,
      status |-> iss[k].status] : k \in 1..Len(iss)}

\* The loop of program S, run over the report of a remembered run from the
\* tracker that run started on, leaves the tracker the run left.
C21_RunAgrees ==
    (Finished /\ Handled("S") /\ idx = 1 /\ Len(rest) = 1) =>
        \A r2 \in ExecRecords :
            r2.name = rest[1] =>
                \E ord \in Orders :
                    S_run(workflow, workflowMap, last.before, ord, <<report[1], r2>>) = issues

\* C21: record order does not matter: the two records of a report, handled
\* in the other order from the same tracker, leave the tracker holding the
\* same test cases and bugs in the same statuses.
C21_OrderFree ==
    (Finished /\ Handled("S") /\ idx = 1 /\ Len(rest) = 1) =>
        \A r2 \in ExecRecords :
            r2.name = rest[1] =>
                \E ord \in Orders :
                    Summary(S_run(workflow, workflowMap, last.before, ord, <<r2, report[1]>>))
                        = Summary(issues)

\* The record of the latest step lists an assertion that failed.
HasFailing ==
    last.tests.present /\ \E i \in 1..Len(last.tests.list) : last.tests.list[i] = "fail"

\* C22: a record with at least one failing assertion gets verdict FAILED,
\* even when other assertions of it passed.
C22_AnyFailFails ==
    (last.prog \in {"D", "A"} /\ last.matched /\ HasFailing) => last.verdict = "FAILED"

\* The latest step handled a test that passed.
PassedVerdict == last.testKey # 0 /\ last.verdict \in {"PASSED", "PASS"}

\* C23: when the verdict is PASSED and a bug found for the test case is
\* already closed, the step sends no transition request for that bug.
C23_ClosedStaysClosed ==
    (last.prog \in {"S", "V", "R", "F"} /\ PassedVerdict) =>
        \A b \in ClosedBefore :
            \A i \in 1..Len(last.log) :
                ~(last.log[i].op = "transition" /\ last.log[i].k = b)

\* C24: from a listing that offers a transition named Reopen and one named
\* Close, fetchJiraWorkflowTransitions builds a map whose entry REOPENED is
\* the id of the first and whose entry CLOSED is the id of the second, and
\* updateJiraBugStatus(bug, REOPENED) with that map raises nothing.
C24_MapFilled ==
    (prog = "S" /\ pc = "loop") =>
        \A r, c \in workflow.trans :
            (r.name = sReopen /\ c.name = sClose) =>
                LET map == S_mapTransitions(ById({r, c}), NoMap)
                IN /\ map.REOPENED = r.id
                   /\ map.CLOSED = c.id
                   /\ ~S_updateJiraBugStatus(workflow, map, St0(issues), {}, 1,
                                             BUG_LIFECYCLE.REOPENED).thrown

\* C25: a status transition is requested for bug issues only: every
\* transition request of a step of the sync loop addresses an issue of type
\* Bug, never a test case.
C25_BugsOnly ==
    (last.prog \in {"S", "P"} /\ last.matched) =>
        \A i \in 1..Len(last.log) :
            last.log[i].op = "transition" =>
                /\ last.log[i].k \in 1..Len(issues)
                /\ issues[last.log[i].k].type = "Bug"

\* The bug search of the latest step got a non-2xx answer.
SearchFailed ==
    \E i \in 1..Len(last.log) :
        last.log[i].op = "search" /\ last.log[i].s = "Bug" /\ ~last.log[i].ok

\* C26: in processFailedTests a bug search that failed with a remote error
\* never leads to the creation of a bug.
C26_NoCreateOnError ==
    (Handled("R") /\ last.verdict = "FAILED" /\ SearchFailed) => BugCreates = 0

\* The values the Bearer headers of a request log carry.
TokensOf(log) == {log[i].tok : i \in {j \in 1..Len(log) : log[j].tok # "none"}}

KeysMissing ==
    /\ file \in Inputs /\ Readable(file)
    /\ ~(CollectionName(file).te /\ CollectionName(file).ts)

\* C28: when the collection name does not hold both keys, syncPostmanResults
\* handles no record: the run is over, no record was read, and the only
\* requests sent are those that precede the reading of the file.
C28_NoKeysNoRecords ==
    (prog \in {"S", "P"} /\ KeysMissing) =>
        /\ pc = "done" /\ idx = 0 /\ stats = NoStats
        /\ issues = last.before
        /\ \A i \in 1..Len(last.log) : last.log[i].op \in {"transitions", "linkTypes"}

\* A run of program P read a collection name with the execution key only,
\* after its request for the transitions was answered.
C28_Witness ==
    /\ prog = "P" /\ file = "onekey" /\ pc = "done"
    /\ Len(last.log) = 1 /\ AllAnswered

\* The request of the latest step that creates a bug got a non-2xx answer.
CreateFailed ==
    \E i \in 1..Len(last.log) :
        last.log[i].op = "create" /\ last.log[i].s = "Bug" /\ ~last.log[i].ok

\* C29: when creating the bug for a failed test fails, processFailedTests
\* sends no link request for that test and stays in its loop; a link request
\* always names a bug.
C29_NoLinkWithoutBug ==
    (Handled("R") /\ last.verdict = "FAILED") =>
        /\ CreateFailed =>
              /\ \A i \in 1..Len(last.log) : last.log[i].op # "link"
              /\ pc = "loop" /\ exitCode = -1
              /\ issues = last.before
        /\ \A i \in 1..Len(last.log) :
              last.log[i].op = "link" =>
                  /\ last.log[i].k \in 1..Len(issues)
                  /\ issues[last.log[i].k].type = "Bug"

\* A failed test whose search was answered with no bug and whose create
\* request failed.
C29_Witness ==
    /\ Handled("R") /\ last.verdict = "FAILED" /\ CreateFailed
    /\ last.log[1].op = "search" /\ last.log[1].ok

\* The run of program R started with one of the six required settings, or
\* all of them, missing.
EnvIncomplete == prog = "R" /\ file \in R_Settings \cup {"noenv"}

\* C30: with any of the six required settings missing, program R ends with
\* status 1 having sent no request and taken nothing from the results file:
\* no test was imported or processed and the tracker is as it was.
C30_ExitBeforeAnyCall ==
    EnvIncomplete =>
        /\ pc = "done" /\ exitCode = 1
        /\ last.log = <<>>
        /\ idx = 0 /\ report = <<>> /\ imported = <<>>
        /\ issues = last.before

\* A run that lacks only the tracker token has ended.
C30_Witness ==
    /\ EnvIncomplete /\ file = "JIRA_API_TOKEN"
    /\ pc = "done" /\ exitCode = 1

====
